---- MODULE Spec2Model ----
(***************************************************************************)
(* Model of app.py: the worked-shift rule, the detection of date columns,  *)
(* the holiday parser, build_summary and the page script that calls them.  *)
(*                                                                         *)
(* Text is modelled as a sequence of one-character strings, a calendar     *)
(* date as its day number within 2026 (1 = 1 January 2026).                *)
(***************************************************************************)
EXTENDS Integers, Sequences, FiniteSets, TLC

VARIABLES
    pc,             \* position of the run: "input", then "done"
    turno,          \* the raw shift value handed to is_turno_valido
    valido,         \* what is_turno_valido returned
    columns,        \* the sheet's column headers, in sheet order
    df,             \* the sheet's rows
    feriados_text,  \* the holiday text of the text area
    holidays,       \* what parse_holidays returned
    warnings,       \* the st.warning calls parse_holidays made, in order
    date_cols,      \* what detect_date_columns returned
    outcome,        \* what build_summary did: its tables or the error raised
    ui              \* what the page shows after the run

vars == <<pc, turno, valido, columns, df, feriados_text, holidays, warnings,
          date_cols, outcome, ui>>

----------------------------------------------------------------------------
(* Bounds of the model.                                                    *)

MaxStrLen == 4
MaxDetectCols == 4
MaxTextLen == 4
MaxRows == 2

----------------------------------------------------------------------------
(* Shift values: _normalize_turno and is_turno_valido.                     *)

\* A raw cell: Python None, a missing value (NaN/NaT), an integer or a text.
RawNone == [tag |-> "None", s |-> <<>>, n |-> 0]
RawNaN == [tag |-> "NaN", s |-> <<>>, n |-> 0]
RawInt(n) == [tag |-> "int", s |-> <<>>, n |-> n]
RawStr(s) == [tag |-> "str", s |-> s, n |-> 0]

Whitespace == {" ", "\t"}

INVALID_TURNOS == {<<"L">>, <<>>}

\* str.lower on one character
LowerChar(c) ==
    CASE c = "L" -> "l"
      [] c = "N" -> "n"
      [] c = "A" -> "a"
      [] c = "O" -> "o"
      [] c = "E" -> "e"
      [] OTHER -> c

Lower(s) == [i \in 1..Len(s) |-> LowerChar(s[i])]

RECURSIVE LStrip(_)
LStrip(s) ==
    IF s # <<>> /\ Head(s) \in Whitespace THEN LStrip(Tail(s)) ELSE s

RECURSIVE RStrip(_)
RStrip(s) ==
    IF s # <<>> /\ s[Len(s)] \in Whitespace
    THEN RStrip(SubSeq(s, 1, Len(s) - 1))
    ELSE s

\* str.strip
Strip(s) == RStrip(LStrip(s))

\* str(x) of an integer between 0 and 9
DigitChar(n) ==
    CASE n = 0 -> "0" [] n = 1 -> "1" [] n = 2 -> "2" [] n = 3 -> "3"
      [] n = 4 -> "4" [] n = 5 -> "5" [] n = 6 -> "6" [] n = 7 -> "7"
      [] n = 8 -> "8" [] OTHER -> "9"

\* str(x)
Str(x) == IF x.tag = "int" THEN <<DigitChar(x.n)>> ELSE x.s

\* pd.isna(x)
IsNa(x) == x.tag = "NaN"

_normalize_turno(x) ==
    IF x.tag = "None" THEN <<>>
    ELSE IF IsNa(x) THEN <<>>
    ELSE LET s == Strip(Str(x))
         IN IF Lower(s) = <<"n", "a", "n">> \/ Lower(s) = <<"n", "o", "n", "e">>
            THEN <<>>
            ELSE s

\* a faulty variant: the marker L is matched in any casing
is_turno_valido_anycase(x) == Lower(_normalize_turno(x)) \notin {<<"l">>, <<>>}

is_turno_valido(x) == _normalize_turno(x) \notin INVALID_TURNOS

\* The characters the shift texts of the model are drawn from.
TurnoChars == {" ", "\t", "L", "l", "N", "n", "a", "o", "e"}

RECURSIVE StringsUpTo(_, _)
StringsUpTo(chars, n) ==
    IF n = 0 THEN {<<>>}
    ELSE LET shorter == StringsUpTo(chars, n - 1)
         IN shorter \cup {Append(s, c) : s \in {t \in shorter : Len(t) = n - 1}, c \in chars}

RawTurnos ==
    {RawNone, RawNaN} \cup {RawInt(n) : n \in {0, 7}}
        \cup {RawStr(s) : s \in StringsUpTo(TurnoChars, MaxStrLen)}

----------------------------------------------------------------------------
(* Dates, date texts and pd.to_datetime.                                   *)

\* A text that may denote a date: numeric fields joined by one separator
\* ("05-01-2026" is nums <<5, 1, 2026>>, sep "-"), with or without a time of
\* day after them, or a word with no numeric fields ("Total").
DateText(nums, sep, tod) == [nums |-> nums, sep |-> sep, tod |-> tod, word |-> ""]
WordText(w) == [nums |-> <<>>, sep |-> "", tod |-> FALSE, word |-> w]

\* A timestamp: the day number within 2026 and whether it carries a time of
\* day other than midnight. NaT is the missing timestamp.
Timestamp(d, tod) == [ok |-> TRUE, date |-> d, tod |-> tod]
NaT == [ok |-> FALSE, date |-> 0, tod |-> FALSE]

Year == 2026

DaysInMonth(m) ==
    CASE m = 2 -> 28
      [] m \in {4, 6, 9, 11} -> 30
      [] OTHER -> 31

\* the days of the year before the first day of month m
DaysBefore(m) == <<0, 31, 59, 90, 120, 151, 181, 212, 243, 273, 304, 334>>[m]

\* datetime.date(Year, m, d) as a day number, NaT when there is no such date
MakeDate(d, m, tod) ==
    IF m \in 1..12 /\ d >= 1 /\ d <= DaysInMonth(m)
    THEN Timestamp(DaysBefore(m) + d, tod)
    ELSE NaT

\* a faulty variant: date.isoweekday(), where Monday is 1 and Sunday is 7
isoweekday(d) == ((d + 2) % 7) + 1

\* date.weekday(): Monday is 0, Sunday is 6; 1 January 2026 is a Thursday
Weekday(d) == (d + 2) % 7

\* strftime("%d-%m-%Y"): the day, month and year fields of the text
strftime(d) ==
    LET m == CHOOSE n \in 1..12 : DaysBefore(n) < d /\ d <= DaysBefore(n) + DaysInMonth(n)
    IN <<d - DaysBefore(m), m, Year>>

\* pd.to_datetime(text, errors="coerce", dayfirst=dayfirst) on one text: a
\* year-first text is read year-month-day whatever dayfirst says; a year-last
\* text is read day-month when its first field cannot be a month or when
\* dayfirst prefers it and the second field can be a month, else month-day.
to_datetime(t, dayfirst) ==
    IF Len(t.nums) # 3 THEN NaT
    ELSE LET a == t.nums[1]
             b == t.nums[2]
             c == t.nums[3]
         IN IF a = Year THEN MakeDate(c, b, t.tod)
            ELSE IF c # Year THEN NaT
            ELSE IF a > 12 \/ (dayfirst /\ b <= 12) THEN MakeDate(a, b, t.tod)
            ELSE MakeDate(b, a, t.tod)

----------------------------------------------------------------------------
(* Column headers and detect_date_columns.                                 *)

\* A column header: a structured date, a text, or a value of another type.
DateHeader(d) == [kind |-> "date", date |-> d, text |-> WordText("")]
TextHeader(t) == [kind |-> "text", date |-> 0, text |-> t]
IntHeader(n) == [kind |-> "int", date |-> n, text |-> WordText("")]

\* ("Area" stands for the header spelled with an accented A in the source)
meta_cols == <<"Nombre del Colaborador", "RUT", "Area", "Supervisor">>

\* c in meta_cols_
InMeta(c, meta_cols_) ==
    /\ c.kind = "text"
    /\ c.text.nums = <<>>
    /\ \E i \in 1..Len(meta_cols_) : meta_cols_[i] = c.text.word

\* a faulty variant: only text headers are looked at
RECURSIVE detect_text_columns(_, _)
detect_text_columns(cols, meta_cols_) ==
    IF cols = <<>> THEN <<>>
    ELSE LET c == Head(cols)
             rest == detect_text_columns(Tail(cols), meta_cols_)
         IN IF InMeta(c, meta_cols_) THEN rest
            ELSE IF c.kind = "text" /\ to_datetime(c.text, TRUE).ok THEN <<c>> \o rest
            ELSE rest

RECURSIVE detect_date_columns(_, _)
detect_date_columns(cols, meta_cols_) ==
    IF cols = <<>> THEN <<>>
    ELSE LET c == Head(cols)
             rest == detect_date_columns(Tail(cols), meta_cols_)
         IN IF InMeta(c, meta_cols_) THEN rest
            ELSE IF c.kind = "date" THEN <<c>> \o rest
            ELSE IF c.kind = "text"
                 THEN IF to_datetime(c.text, TRUE).ok THEN <<c>> \o rest ELSE rest
            ELSE rest

----------------------------------------------------------------------------
(* The holiday text and parse_holidays.                                    *)

\* The holiday text is a sequence of tokens: a delimiter character, a blank,
\* or a fragment (a maximal piece of text free of delimiters and of leading
\* and trailing blanks).
Delim(ch) == [t |-> "delim", ch |-> ch, frag |-> WordText("")]
Blank == [t |-> "blank", ch |-> " ", frag |-> WordText("")]
Frag(f) == [t |-> "frag", ch |-> "", frag |-> f]

\* what str.strip removes: blanks and line breaks
IsSpace(tok) == tok.t = "blank" \/ (tok.t = "delim" /\ tok.ch = "\n")

\* what the pattern [,\n;] matches
IsSplitChar(tok) == tok.t = "delim" /\ tok.ch \in {",", "\n", ";"}

RECURSIVE LStripText(_)
LStripText(text) ==
    IF text # <<>> /\ IsSpace(Head(text)) THEN LStripText(Tail(text)) ELSE text

RECURSIVE RStripText(_)
RStripText(text) ==
    IF text # <<>> /\ IsSpace(text[Len(text)])
    THEN RStripText(SubSeq(text, 1, Len(text) - 1))
    ELSE text

StripText(text) == RStripText(LStripText(text))

\* re.split(r"[,\n;]+", text): the pieces between the runs of delimiters,
\* an empty piece before a leading run and after a trailing one
RECURSIVE SplitFrom(_, _, _)
SplitFrom(text, i, cur) ==
    IF i > Len(text) THEN <<cur>>
    ELSE IF IsSplitChar(text[i])
         THEN IF i > 1 /\ IsSplitChar(text[i - 1])
              THEN SplitFrom(text, i + 1, cur)
              ELSE <<cur>> \o SplitFrom(text, i + 1, <<>>)
         ELSE SplitFrom(text, i + 1, Append(cur, text[i]))

re_split(text) == SplitFrom(text, 1, <<>>)

\* p.replace(".", "-").replace("/", "-")
NormalizeSeparators(f) == IF f.sep \in {".", "/"} THEN [f EXCEPT !.sep = "-"] ELSE f

\* a faulty variant: the time of day is kept
KeepTime(ts) == ts

\* pd.Timestamp(dt_val.date()): the time of day is dropped
DateOnly(ts) == Timestamp(ts.date, FALSE)

\* One turn of the loop over the parts, on the state (holidays, warnings).
HolidayStep(acc, part) ==
    LET p == StripText(part)
    IN IF p = <<>> THEN acc
       ELSE LET p_norm == NormalizeSeparators(p[1].frag)
                first == to_datetime(p_norm, TRUE)
                dt_val == IF first.ok THEN first ELSE to_datetime(p_norm, FALSE)
            IN IF ~dt_val.ok
               THEN [acc EXCEPT !.warnings = Append(@, p[1].frag)]
               ELSE [acc EXCEPT !.holidays = @ \cup {DateOnly(dt_val)}]

RECURSIVE HolidayLoop(_, _)
HolidayLoop(acc, parts) ==
    IF parts = <<>> THEN acc
    ELSE HolidayLoop(HolidayStep(acc, Head(parts)), Tail(parts))

parse_holidays(text) ==
    IF text = <<>> \/ StripText(text) = <<>>
    THEN [holidays |-> {}, warnings |-> <<>>]
    ELSE HolidayLoop([holidays |-> {}, warnings |-> <<>>], re_split(StripText(text)))

\* A text the model draws: between two fragments stands at least one
\* delimiter, so that every part holds at most one fragment.
OneFragPerPart(text) ==
    \A i, j \in 1..Len(text) :
        (i < j /\ text[i].t = "frag" /\ text[j].t = "frag")
            => \E k \in (i + 1)..(j - 1) : IsSplitChar(text[k])

----------------------------------------------------------------------------
(* build_summary.                                                          *)

\* (CHOOSE r \in {F(x) : x \in {e}} : TRUE is F(e), with e evaluated once.)

\* A sheet is its headers (columns) and its rows (df), each row the sequence
\* of the values under the headers: a text under an identity column, a raw
\* shift value under any other column.

ColIndex(cols, h) == CHOOSE i \in 1..Len(cols) : cols[i] = h

MetaHeader(name) == TextHeader(WordText(name))

HasColumn(cols, h) == \E i \in 1..Len(cols) : cols[i] = h

\* tuple(row[c] for c in meta_cols_)
KeyOf(cols, row, meta_cols_) ==
    [i \in 1..Len(meta_cols_) |-> row[ColIndex(cols, MetaHeader(meta_cols_[i]))]]

\* the identity tuples of the model, in the order groupby sorts them
SortedKeys ==
    << <<"Ana", "1-9", "Caja", "Luis">>,
       <<"Ana", "2-7", "Caja", "Luis">> >>

\* sorted(S) of a set of day numbers
RECURSIVE Sorted(_)
Sorted(S) ==
    IF S = {} THEN <<>>
    ELSE LET m == CHOOSE x \in S : \A y \in S : x <= y
         IN <<m>> \o Sorted(S \ {m})

\* ", ".join(x.strftime("%d-%m-%Y") for x in lst): the formatted dates in order
JoinDates(lst) == [i \in 1..Len(lst) |-> strftime(lst[i])]

\* df.melt(...) with the columns Turno_norm, Trabajado, Fecha_dt, Fecha_ts,
\* Es_domingo: one fact per date column and row, column by column
Melt(cols, rows, meta_cols_, dcols) ==
    LET Fecha(h) == IF h.kind = "date" THEN Timestamp(h.date, FALSE)
                    ELSE to_datetime(h.text, TRUE)
        Fact(key, turno_, fecha) ==
            [key |-> key,
             Trabajado |-> is_turno_valido(RawStr(_normalize_turno(turno_))),
             Fecha_dt |-> DateOnly(fecha).date,
             isna |-> ~fecha.ok,
             Es_domingo |-> fecha.ok /\ Weekday(fecha.date) = 6]
        Long(keys, heads) ==
            [n \in 1..(Len(dcols) * Len(rows)) |->
                Fact(keys[((n - 1) % Len(rows)) + 1],
                     rows[((n - 1) % Len(rows)) + 1][heads[((n - 1) \div Len(rows)) + 1].at],
                     heads[((n - 1) \div Len(rows)) + 1].fecha)]
    IN CHOOSE dfl \in
           {Long(keys, heads) :
               keys \in {[i \in 1..Len(rows) |-> KeyOf(cols, rows[i], meta_cols_)]},
               heads \in {[j \in 1..Len(dcols) |->
                              [at |-> ColIndex(cols, dcols[j]), fecha |-> Fecha(dcols[j])]]}} : TRUE

\* df[meta_cols_].drop_duplicates(): the identity tuples in order of first
\* appearance
DropDuplicates(cols, rows, meta_cols_) ==
    LET FirstOnes(keys) ==
            LET IsFirst(i) == \A j \in 1..(i - 1) : keys[j] # keys[i]
                Nth(firsts) ==
                    [n \in 1..Cardinality(firsts) |->
                        keys[CHOOSE i \in firsts :
                                Cardinality({j \in firsts : j <= i}) = n]]
            IN CHOOSE r \in {Nth(firsts) :
                                firsts \in {{i \in 1..Len(keys) : IsFirst(i)}}} : TRUE
    IN CHOOSE r \in {FirstOnes(keys) :
                        keys \in {[i \in 1..Len(rows) |->
                                     KeyOf(cols, rows[i], meta_cols_)]}} : TRUE

\* the dates of the facts of sub that carry key k
DatesOf(sub, k) == {sub[i].Fecha_dt : i \in {j \in 1..Len(sub) : sub[j].key = k}}

\* sub.groupby(meta_cols_): the keys that occur in sub, sorted
GroupKeys(sub) ==
    LET Occurs(k) == \E i \in 1..Len(sub) : sub[i].key = k
    IN SelectSeq(SortedKeys, Occurs)

\* a faulty variant: no fallback to the roster when sub is empty
agg_table_groups_only(sub, base) ==
    LET grp == GroupKeys(sub)
    IN [i \in 1..Len(grp) |->
           [key |-> grp[i],
            count |-> Cardinality(DatesOf(sub, grp[i])),
            dates |-> JoinDates(Sorted(DatesOf(sub, grp[i])))]]

agg_table(sub, base) ==
    IF sub = <<>>
    THEN [i \in 1..Len(base) |-> [key |-> base[i], count |-> 0, dates |-> <<>>]]
    ELSE LET Rows(grp) ==
                 LET Row(k, lst) == [key |-> k, count |-> Len(lst), dates |-> JoinDates(lst)]
                 IN [i \in 1..Len(grp) |->
                        CHOOSE r \in {Row(grp[i], lst) : lst \in {Sorted(DatesOf(sub, grp[i]))}} : TRUE]
         IN CHOOSE t \in {Rows(grp) : grp \in {GroupKeys(sub)}} : TRUE

\* a faulty variant: only the first fact of the key is kept
LookupFirst(sub, k) ==
    LET own == {i \in 1..Len(sub) : sub[i].key = k}
    IN IF own = {} THEN {}
       ELSE {sub[CHOOSE i \in own : \A j \in own : i <= j].Fecha_dt}

\* make_lookup(sub).get(key, set())
Lookup(sub, k) == DatesOf(sub, k)

\* a faulty variant: the total is the sum of the two counts
TotalRowSum(k, dom, fest) ==
    LET Row(s_dom, s_fest, s_all) ==
            [key |-> k,
             domingos |-> Cardinality(s_dom),
             festivos |-> Cardinality(s_fest),
             total |-> Cardinality(s_dom) + Cardinality(s_fest),
             fechas_domingos |-> JoinDates(Sorted(s_dom)),
             fechas_festivos |-> JoinDates(Sorted(s_fest)),
             fechas_todas |-> JoinDates(Sorted(s_all))]
    IN CHOOSE r \in {Row(s_dom, s_fest, s_dom \cup s_fest) :
                         s_dom \in {Lookup(dom, k)}, s_fest \in {Lookup(fest, k)}} : TRUE

TotalRow(k, dom, fest) ==
    LET Row(s_dom, s_fest, s_all) ==
            [key |-> k,
             domingos |-> Cardinality(s_dom),
             festivos |-> Cardinality(s_fest),
             total |-> Cardinality(s_all),
             fechas_domingos |-> JoinDates(Sorted(s_dom)),
             fechas_festivos |-> JoinDates(Sorted(s_fest)),
             fechas_todas |-> JoinDates(Sorted(s_all))]
    IN CHOOSE r \in {Row(s_dom, s_fest, s_dom \cup s_fest) :
                         s_dom \in {Lookup(dom, k)}, s_fest \in {Lookup(fest, k)}} : TRUE

ValueError(line) == [kind |-> "ValueError", line |-> line]
TypeError(line) == [kind |-> "TypeError", line |-> line]
KeyError(line) == [kind |-> "KeyError", line |-> line]

\* The outcomes of a call: one, but for date columns of which some parse and
\* some do not. min() and max() then compare NaT with a date, which raises a
\* TypeError in one pandas and is False in another; there min() and max()
\* keep a leading NaT, whose strftime raises a ValueError.
build_summary(cols, rows, meta_cols_, dcols, holidays_) ==
    IF dcols = <<>> THEN {ValueError(114)}
    ELSE IF \E i \in 1..Len(meta_cols_) : ~HasColumn(cols, MetaHeader(meta_cols_[i]))
    THEN {KeyError(117)}
    ELSE
    LET Period(known) ==
            <<strftime(CHOOSE x \in known : \A y \in known : x <= y),
              strftime(CHOOSE x \in known : \A y \in known : x >= y)>>
        Tables(dom, fest, base, known) ==
            [kind |-> "ok",
             dom_tbl |-> agg_table(dom, base),
             fest_tbl |-> agg_table(fest, base),
             total_tbl |-> [i \in 1..Len(base) |-> TotalRow(base[i], dom, fest)],
             periodo_str |-> Period(known)]
        Summary(dfl) ==
            LET IsDom(f) == f.Trabajado /\ f.Es_domingo
                IsFest(f) ==
                    f.Trabajado /\ ~f.isna /\ Timestamp(f.Fecha_dt, FALSE) \in holidays_
                Returns ==
                    CHOOSE r \in
                        {Tables(dom, fest, base, known) :
                            dom \in {SelectSeq(dfl, IsDom)},
                            fest \in {IF holidays_ # {} THEN SelectSeq(dfl, IsFest) ELSE <<>>},
                            base \in {DropDuplicates(cols, rows, meta_cols_)},
                            known \in {{dfl[i].Fecha_dt : i \in {j \in 1..Len(dfl) : ~dfl[j].isna}}}} : TRUE
            IN IF \A i \in 1..Len(dfl) : dfl[i].isna THEN {ValueError(126)}
               ELSE IF \E i \in 1..Len(dfl) : dfl[i].isna
               THEN {TypeError(132), IF dfl[1].isna THEN ValueError(134) ELSE Returns}
               ELSE {Returns}
    IN CHOOSE r \in {Summary(dfl) : dfl \in {Melt(cols, rows, meta_cols_, dcols)}} : TRUE

----------------------------------------------------------------------------
(* The page script (lines 276-333) and the specifications.                 *)

NoOutcome == [kind |-> "none"]

Idle == [message |-> "none", tables |-> {}, download |-> FALSE]

\* [c for c in cols if c not in meta_cols_]
NonMeta(cols, meta_cols_) ==
    LET Other(c) == ~InMeta(c, meta_cols_)
    IN SelectSeq(cols, Other)

\* a faulty variant: every error is reported as unexpected
ReportAnyError(res) ==
    IF res.kind = "ok"
    THEN [message |-> "Procesamiento exitoso",
          tables |-> {"Domingos", "Festivos", "Resumen Total"},
          download |-> TRUE]
    ELSE [message |-> "Ocurrio un error inesperado", tables |-> {}, download |-> FALSE]

\* What the page shows for an outcome of build_summary: the success message,
\* the three tabs and the download, or one of the two error messages.
Report(res) ==
    IF res.kind = "ok"
    THEN [message |-> "Procesamiento exitoso",
          tables |-> {"Domingos", "Festivos", "Resumen Total"},
          download |-> TRUE]
    ELSE IF res.kind = "ValueError"
    THEN [message |-> "Error de Datos", tables |-> {}, download |-> FALSE]
    ELSE [message |-> "Ocurrio un error inesperado", tables |-> {}, download |-> FALSE]

\* The runs of the script on the uploaded sheet and the holiday text, one
\* for each outcome of build_summary.
RunScript(cols, rows, text) ==
    IF \E i \in 1..Len(meta_cols) : ~HasColumn(cols, MetaHeader(meta_cols[i]))
    THEN {[date_cols |-> <<>>, parsed |-> [holidays |-> {}, warnings |-> <<>>],
          outcome |-> NoOutcome,
          ui |-> [message |-> "No encuentro las columnas", tables |-> {}, download |-> FALSE]]}
    ELSE LET Show(dc, parsed, res) ==
                 [date_cols |-> dc, parsed |-> parsed, outcome |-> res, ui |-> Report(res)]
             Build(dc, parsed) ==
                 {Show(dc, parsed, res) :
                     res \in build_summary(cols, rows, meta_cols, dc, parsed.holidays)}
         IN CHOOSE runs \in {Build(dc, parsed) : dc \in {detect_date_columns(cols, meta_cols)},
                                                  parsed \in {parse_holidays(text)}} : TRUE

\* ---- the sheets and holiday texts of the model ----

D4 == DateHeader(4)
T5 == TextHeader(DateText(<<5, 1, Year>>, "-", FALSE))
Total == TextHeader(WordText("Total"))

MetaHeaders == [i \in 1..Len(meta_cols) |-> MetaHeader(meta_cols[i])]

\* the columns after the identity columns
Layouts ==
    {<<>>, <<D4>>, <<T5>>, <<Total>>, <<D4, T5>>, <<Total, D4>>, <<T5, Total>>}

\* the raw values under a column: a number under the totals column
CellValues(h) ==
    IF h = Total THEN {RawInt(7)}
    ELSE {RawNaN, RawStr(<<"L">>), RawStr(<<"A", "M">>)}

RECURSIVE CellRows(_)
CellRows(layout) ==
    IF layout = <<>> THEN {<<>>}
    ELSE {<<v>> \o rest : v \in CellValues(Head(layout)), rest \in CellRows(Tail(layout))}

RowsOf(layout) ==
    {SortedKeys[k] \o cells : k \in 1..Len(SortedKeys), cells \in CellRows(layout)}

RECURSIVE SeqsUpTo(_, _)
SeqsUpTo(S, n) ==
    IF n = 0 THEN {<<>>}
    ELSE LET shorter == SeqsUpTo(S, n - 1)
         IN shorter \cup {Append(q, x) : q \in {t \in shorter : Len(t) = n - 1}, x \in S}

F4 == DateText(<<4, 1, Year>>, "-", FALSE)
F5 == DateText(<<5, 1, Year>>, "/", FALSE)

MainTexts ==
    {<<>>, <<Blank>>, <<Frag(F4)>>, <<Blank, Frag(F5), Delim("\n")>>,
     <<Frag(F4), Delim(","), Blank, Frag(F5)>>}

Init ==
    /\ pc = "input"
    /\ turno = RawNone
    /\ valido = FALSE
    /\ \/ \E layout \in Layouts :
            /\ columns = MetaHeaders \o layout
            /\ df \in SeqsUpTo(RowsOf(layout), MaxRows)
       \/ /\ columns \in {<<MetaHeader("RUT"), D4>>, <<D4, T5>>}
          /\ df = <<>>
    /\ feriados_text \in MainTexts
    /\ holidays = {}
    /\ warnings = <<>>
    /\ date_cols = <<>>
    /\ outcome = NoOutcome
    /\ ui = Idle

\* build_summary called on every column after the identity columns
CallBuildSummary ==
    /\ pc = "input"
    /\ \E parsed \in {parse_holidays(feriados_text)}, dc \in {NonMeta(columns, meta_cols)} :
           /\ date_cols' = dc
           /\ holidays' = parsed.holidays
           /\ warnings' = parsed.warnings
           /\ outcome' \in build_summary(columns, df, meta_cols, dc, parsed.holidays)
    /\ pc' = "called"
    /\ UNCHANGED <<turno, valido, columns, df, feriados_text, ui>>

\* the script runs on the upload
RunUI ==
    /\ pc = "input"
    /\ \E run \in RunScript(columns, df, feriados_text) :
           /\ date_cols' = run.date_cols
           /\ holidays' = run.parsed.holidays
           /\ warnings' = run.parsed.warnings
           /\ outcome' = run.outcome
           /\ ui' = run.ui
    /\ pc' = "shown"
    /\ UNCHANGED <<turno, valido, columns, df, feriados_text>>

Next == CallBuildSummary \/ RunUI

Spec == Init /\ [][Next]_vars

\* ---- is_turno_valido on its own ----

InitTurno ==
    /\ pc = "input"
    /\ turno \in RawTurnos
    /\ valido = FALSE
    /\ columns = <<>>
    /\ df = <<>>
    /\ feriados_text = <<>>
    /\ holidays = {}
    /\ warnings = <<>>
    /\ date_cols = <<>>
    /\ outcome = NoOutcome
    /\ ui = Idle

CallIsTurnoValido ==
    /\ pc = "input"
    /\ valido' = is_turno_valido(turno)
    /\ pc' = "done"
    /\ UNCHANGED <<turno, columns, df, feriados_text, holidays, warnings,
                   date_cols, outcome, ui>>

NextTurno == CallIsTurnoValido

SpecTurno == InitTurno /\ [][NextTurno]_vars

\* ---- detect_date_columns on its own ----

DetectHeaders ==
    {MetaHeader("RUT"), MetaHeader("Supervisor"), DateHeader(4), IntHeader(5),
     TextHeader(DateText(<<1, 1, Year>>, "-", FALSE)),
     TextHeader(DateText(<<2, 1, Year>>, "-", FALSE)),
     TextHeader(DateText(<<31, 2, Year>>, "-", FALSE)),
     Total}

Distinct(q) == \A i, j \in 1..Len(q) : i # j => q[i] # q[j]

InitDetect ==
    /\ pc = "input"
    /\ turno = RawNone
    /\ valido = FALSE
    /\ columns \in {q \in SeqsUpTo(DetectHeaders, MaxDetectCols) : Distinct(q)}
    /\ df = <<>>
    /\ feriados_text = <<>>
    /\ holidays = {}
    /\ warnings = <<>>
    /\ date_cols = <<>>
    /\ outcome = NoOutcome
    /\ ui = Idle

CallDetect ==
    /\ pc = "input"
    /\ date_cols' = detect_date_columns(columns, meta_cols)
    /\ pc' = "done"
    /\ UNCHANGED <<turno, valido, columns, df, feriados_text, holidays, warnings,
                   outcome, ui>>

NextDetect == CallDetect

SpecDetect == InitDetect /\ [][NextDetect]_vars

\* ---- parse_holidays on its own ----

HolidayTokens ==
    {Delim(","), Delim(";"), Delim("\n"), Blank,
     Frag(DateText(<<1, 1, Year>>, "-", FALSE)),
     Frag(DateText(<<1, 1, Year>>, "-", TRUE)),
     Frag(DateText(<<15, 1, Year>>, "/", FALSE)),
     Frag(DateText(<<Year, 1, 20>>, ".", FALSE)),
     Frag(DateText(<<31, 2, Year>>, "-", FALSE)),
     Frag(WordText("feriado"))}

InitHolidays ==
    /\ pc = "input"
    /\ turno = RawNone
    /\ valido = FALSE
    /\ columns = <<>>
    /\ df = <<>>
    /\ feriados_text \in {q \in SeqsUpTo(HolidayTokens, MaxTextLen) : OneFragPerPart(q)}
    /\ holidays = {}
    /\ warnings = <<>>
    /\ date_cols = <<>>
    /\ outcome = NoOutcome
    /\ ui = Idle

CallParseHolidays ==
    /\ pc = "input"
    /\ holidays' = parse_holidays(feriados_text).holidays
    /\ warnings' = parse_holidays(feriados_text).warnings
    /\ pc' = "done"
    /\ UNCHANGED <<turno, valido, columns, df, feriados_text, date_cols, outcome, ui>>

NextHolidays == CallParseHolidays

SpecHolidays == InitHolidays /\ [][NextHolidays]_vars

----------------------------------------------------------------------------
(* What the claims speak of, stated from the sheet and not from the tables. *)

\* the identity tuple of a row: its values under the identity columns
RowKey(r) == SubSeq(r, 1, Len(meta_cols))

Roster == {RowKey(df[i]) : i \in 1..Len(df)}

IdentityPresent ==
    \A i \in 1..Len(meta_cols) : \E j \in 1..Len(columns) : columns[j] = MetaHeaders[i]

Called == pc \in {"called", "shown"} /\ outcome.kind # "none"

Returned == Called /\ outcome.kind = "ok"

\* the calendar date a date column stands for, read day first
DenotesDate(h) ==
    \/ h.kind = "date"
    \/ h.kind = "text" /\ Len(h.text.nums) = 3 /\ h.text.nums[2] \in 1..12

DateOfHeader(h) ==
    IF h.kind = "date" THEN h.date ELSE DaysBefore(h.text.nums[2]) + h.text.nums[1]

\* the sheet's cell of row r under header h
Cell(r, h) == r[CHOOSE i \in 1..Len(columns) : columns[i] = h]

\* a shift that is not worked: an empty cell or the marker L
NotWorked(v) == v.tag = "NaN" \/ (v.tag = "str" /\ v.s = <<"L">>)

\* the dates on which some row of key k has a worked shift
WorkedDates(k) ==
    {DateOfHeader(date_cols[j]) :
        j \in {c \in 1..Len(date_cols) :
                  /\ DenotesDate(date_cols[c])
                  /\ \E i \in 1..Len(df) :
                        RowKey(df[i]) = k /\ ~NotWorked(Cell(df[i], date_cols[c]))}}

\* the Sundays of 2026 are the days 4, 11, 18, ...
IsSunday(d) == d % 7 = 4

HolidayDates == {h.date : h \in holidays}

WorkedSundays(k) == {d \in WorkedDates(k) : IsSunday(d)}

WorkedHolidays(k) == {d \in WorkedDates(k) : d \in HolidayDates}

Occurrences(tbl, k) == Cardinality({i \in 1..Len(tbl) : tbl[i].key = k})

\* a date list is the January dates of S, each once, in ascending order
ListsAscending(lst, S) ==
    /\ Len(lst) = Cardinality(S)
    /\ {lst[i] : i \in 1..Len(lst)} = {<<d, 1, Year>> : d \in S}
    /\ \A i \in 1..(Len(lst) - 1) : lst[i][1] < lst[i + 1][1]

\* C1: every identity key of the roster appears exactly once in the Sunday
\* table, in the Holiday table and in the Total table that build_summary
\* returns; a key with no worked Sunday has a Sunday row with count 0 and an
\* empty date list.
C1_RosterOnceInEveryTable ==
    Returned =>
        \A k \in Roster :
            /\ Occurrences(outcome.dom_tbl, k) = 1
            /\ Occurrences(outcome.fest_tbl, k) = 1
            /\ Occurrences(outcome.total_tbl, k) = 1
            /\ WorkedSundays(k) = {} =>
                  \E i \in 1..Len(outcome.dom_tbl) :
                      /\ outcome.dom_tbl[i].key = k
                      /\ outcome.dom_tbl[i].count = 0
                      /\ outcome.dom_tbl[i].dates = <<>>

\* C2: in the Total table, the Sunday count of a key is the number of distinct
\* Sundays among the date columns on which some row of the key has a worked
\* shift, and the Holiday count the number of distinct dates of the holiday
\* set on which some row of the key has a worked shift; a date that is not
\* worked, or that is neither a Sunday nor a holiday, is not counted.
C2_TotalCounts ==
    Returned =>
        \A i \in 1..Len(outcome.total_tbl) :
            LET row == outcome.total_tbl[i]
            IN /\ row.domingos = Cardinality(WorkedSundays(row.key))
               /\ row.festivos = Cardinality(WorkedHolidays(row.key))

\* a key with a worked Sunday, a worked holiday, a Sunday that is not worked
\* and a worked date that is neither
C2_Witness ==
    /\ Returned
    /\ columns = MetaHeaders \o <<D4, T5>>
    /\ Len(df) = 2
    /\ \E i \in 1..Len(outcome.total_tbl) :
          /\ outcome.total_tbl[i].domingos = 1
          /\ outcome.total_tbl[i].festivos = 0
    /\ \E i \in 1..Len(outcome.total_tbl) :
          /\ outcome.total_tbl[i].domingos = 0
          /\ outcome.total_tbl[i].festivos = 1
    /\ \E i \in 1..Len(df) : Cell(df[i], D4) = RawStr(<<"L">>)
    /\ HolidayDates = {5}

\* C3: in every row of the Total table the union count is at most the Sunday
\* count plus the Holiday count, and equals that sum minus the number of
\* dates that are both a worked Sunday and a worked holiday of the key.
C3_UnionCount ==
    Returned =>
        \A i \in 1..Len(outcome.total_tbl) :
            LET row == outcome.total_tbl[i]
                both == WorkedSundays(row.key) \cap WorkedHolidays(row.key)
            IN /\ row.total <= row.domingos + row.festivos
               /\ row.total = row.domingos + row.festivos - Cardinality(both)

\* a key whose worked Sunday is also a worked holiday, and that worked a
\* second holiday
C3_Witness ==
    /\ Returned
    /\ \E i \in 1..Len(outcome.total_tbl) :
          /\ outcome.total_tbl[i].domingos = 1
          /\ outcome.total_tbl[i].festivos = 2
          /\ outcome.total_tbl[i].total = 2

\* C4: is_turno_valido is false exactly for the values whose normal form is
\* "" or "L": a null or missing value, a text that is blank, that reads
\* nan or none in any casing once trimmed, or that is L once trimmed; every
\* other value is worked, a lowercase l included.
C4_WorkedRule ==
    pc = "done" =>
        LET inner == {i \in 1..Len(turno.s) : turno.s[i] \notin {" ", "\t"}}
            trimmed ==
                IF inner = {} THEN <<>>
                ELSE SubSeq(turno.s,
                            CHOOSE i \in inner : \A j \in inner : i <= j,
                            CHOOSE i \in inner : \A j \in inner : i >= j)
            AnyCase(word) ==
                /\ Len(trimmed) = Len(word)
                /\ \A i \in 1..Len(word) : trimmed[i] \in word[i]
            notWorked ==
                \/ turno.tag \in {"None", "NaN"}
                \/ /\ turno.tag = "str"
                   /\ \/ trimmed = <<>>
                      \/ trimmed = <<"L">>
                      \/ AnyCase(<<{"n", "N"}, {"a", "A"}, {"n", "N"}>>)
                      \/ AnyCase(<<{"n", "N"}, {"o", "O"}, {"n", "N"}, {"e", "E"}>>)
        IN /\ valido = ~notWorked
           /\ turno = RawStr(<<"l">>) => valido
           /\ turno \in {RawStr(<<"N", "a", "N">>), RawStr(<<"N", "o", "n", "e">>),
                         RawStr(<<" ", "L", " ">>)} => ~valido

\* the padded marker " L " was judged not worked
C4_Witness ==
    pc = "done" /\ turno = RawStr(<<" ", "L", " ">>) /\ valido = FALSE

\* C5: build_summary raises a ValueError when it is given no date column or
\* when no header of its date columns parses as a date; the script reports a
\* ValueError as a data error, another error by the message for unexpected
\* errors, and shows no table and no download unless build_summary returned.
C5_DataError ==
    /\ (Called /\ date_cols = <<>>) => outcome.kind = "ValueError"
    /\ (Called /\ IdentityPresent /\ \A j \in 1..Len(date_cols) : ~DenotesDate(date_cols[j]))
           => outcome.kind = "ValueError"
    /\ (pc = "shown" /\ outcome.kind = "ValueError")
           => ui.message = "Error de Datos" /\ ui.tables = {} /\ ~ui.download
    /\ (pc = "shown" /\ outcome.kind \notin {"ok", "ValueError"})
           => ui.message # "Error de Datos" /\ ui.tables = {} /\ ~ui.download

\* the script ran on a sheet with rows whose only other column is Total
C5_Witness ==
    /\ pc = "shown"
    /\ columns = MetaHeaders \o <<Total>>
    /\ Len(df) = 2
    /\ outcome.kind = "ValueError"
    /\ ui.message = "Error de Datos"

\* the fragments of the holiday text, in order
Fragments == SelectSeq(feriados_text, LAMBDA tok : tok.t = "frag")

\* the date a fragment parses to: day first, else month first
FragmentDate(tok) ==
    IF to_datetime(tok.frag, TRUE).ok THEN to_datetime(tok.frag, TRUE)
    ELSE to_datetime(tok.frag, FALSE)

\* C6: parse_holidays returns the set of the calendar dates of the fragments
\* that parse, duplicates collapsed and the time of day dropped, and warns
\* exactly once, in order, for each fragment that parses under neither
\* convention, going on with the fragments after it.
C6_HolidaySet ==
    pc = "done" =>
        /\ holidays = {[ok |-> TRUE, date |-> FragmentDate(Fragments[i]).date, tod |-> FALSE] :
                          i \in {j \in 1..Len(Fragments) : FragmentDate(Fragments[j]).ok}}
        /\ warnings = [i \in 1..Len(SelectSeq(Fragments, LAMBDA tok : ~FragmentDate(tok).ok)) |->
                          SelectSeq(Fragments, LAMBDA tok : ~FragmentDate(tok).ok)[i].frag]

\* a text whose first fragment does not parse and whose second does
C6_Witness ==
    /\ pc = "done"
    /\ Len(Fragments) = 2
    /\ ~FragmentDate(Fragments[1]).ok
    /\ FragmentDate(Fragments[2]).tod
    /\ Len(warnings) = 1
    /\ Cardinality(holidays) = 1

\* C7: an empty or blank holiday text yields the empty holiday set; with the
\* empty holiday set build_summary raises no error but the one it raises on
\* the same sheet with a holiday, and the Holiday table it returns has one row per roster
\* key, with count 0 and an empty date list.
C7_NoHolidays ==
    /\ (pc # "input" /\ \A i \in 1..Len(feriados_text) : feriados_text[i].t = "blank")
           => holidays = {} /\ warnings = <<>>
    /\ (Called /\ holidays = {} /\ outcome.kind # "ok") =>
           outcome \in build_summary(columns, df, meta_cols, date_cols,
                                     {[ok |-> TRUE, date |-> 5, tod |-> FALSE]})
    /\ (Returned /\ holidays = {}) =>
           /\ \A k \in Roster : Occurrences(outcome.fest_tbl, k) = 1
           /\ \A i \in 1..Len(outcome.fest_tbl) :
                 /\ outcome.fest_tbl[i].key \in Roster
                 /\ outcome.fest_tbl[i].count = 0
                 /\ outcome.fest_tbl[i].dates = <<>>

\* a blank holiday text, two employees, one of whom worked the 5th
C7_Witness ==
    /\ Returned
    /\ feriados_text = <<Blank>>
    /\ holidays = {}
    /\ Cardinality(Roster) = 2
    /\ Len(outcome.fest_tbl) = 2
    /\ \E k \in Roster : 5 \in WorkedDates(k)

\* C8: detect_date_columns returns, in sheet order, exactly the columns that
\* are no identity column and whose header is a structured date or a text
\* that parses as a date; a text that does not parse is left out.
C8_DetectedColumns ==
    pc = "done" =>
        LET IsIdentity(c) ==
                c.kind = "text" /\ c.text.word \in {meta_cols[i] : i \in 1..Len(meta_cols)}
            Accepted(c) ==
                /\ ~IsIdentity(c)
                /\ \/ c.kind = "date"
                   \/ /\ c.kind = "text"
                      /\ Len(c.text.nums) = 3
                      /\ c.text.nums[2] \in 1..12
                      /\ c.text.nums[1] \in 1..DaysInMonth(c.text.nums[2])
        IN /\ {date_cols[i] : i \in 1..Len(date_cols)}
                  = {columns[i] : i \in {j \in 1..Len(columns) : Accepted(columns[j])}}
           /\ \A i, j \in 1..Len(date_cols) :
                 i < j => \E a, b \in 1..Len(columns) :
                              a < b /\ columns[a] = date_cols[i] /\ columns[b] = date_cols[j]
           /\ \A i \in 1..Len(date_cols) : ~IsIdentity(date_cols[i])

\* a text date before a structured date, with Total and an identity column
C8_Witness ==
    /\ pc = "done"
    /\ Len(columns) = 4
    /\ \E i \in 1..Len(columns) : columns[i] = Total
    /\ \E i \in 1..Len(columns) : columns[i] = MetaHeader("RUT")
    /\ date_cols = <<TextHeader(DateText(<<2, 1, Year>>, "-", FALSE)), DateHeader(4)>>

\* C9: rows that carry the same identity tuple are merged: the key has one
\* row in the Total table, whose Sunday and Holiday date lists are the worked
\* Sundays and worked holidays of all the rows of the key, each date once,
\* in ascending order.
C9_DuplicatesMerge ==
    Returned =>
        \A k \in Roster :
            /\ Occurrences(outcome.total_tbl, k) = 1
            /\ \A i \in 1..Len(outcome.total_tbl) :
                  outcome.total_tbl[i].key = k =>
                      /\ ListsAscending(outcome.total_tbl[i].fechas_domingos, WorkedSundays(k))
                      /\ ListsAscending(outcome.total_tbl[i].fechas_festivos, WorkedHolidays(k))
                      /\ ListsAscending(outcome.total_tbl[i].fechas_todas,
                                        WorkedSundays(k) \cup WorkedHolidays(k))
                      /\ outcome.total_tbl[i].domingos = Cardinality(WorkedSundays(k))
                      /\ outcome.total_tbl[i].festivos = Cardinality(WorkedHolidays(k))

\* two rows of one key: both worked the Sunday, only the second the holiday
C9_Witness ==
    /\ Returned
    /\ columns = MetaHeaders \o <<D4, T5>>
    /\ Len(df) = 2
    /\ Cardinality(Roster) = 1
    /\ HolidayDates = {4, 5}
    /\ ~NotWorked(Cell(df[1], D4)) /\ ~NotWorked(Cell(df[2], D4))
    /\ NotWorked(Cell(df[1], T5)) /\ ~NotWorked(Cell(df[2], T5))
    /\ Len(outcome.total_tbl) = 1
    /\ outcome.total_tbl[1].fechas_todas = <<<<4, 1, Year>>, <<5, 1, Year>>>>

\* C10: given at least one date column, every one with a header that parses
\* as a date, build_summary returns its tables and the period, whatever the
\* rows of the sheet, also when there is none.
C10_NoErrorOnValidColumns ==
    (Called /\ IdentityPresent /\ date_cols # <<>>
        /\ \A j \in 1..Len(date_cols) : DenotesDate(date_cols[j]))
        => outcome.kind = "ok"

====
